---- MODULE Spec2Model ----
(***************************************************************************)
(* The case-study notebooks of cs5841-ee5841-sp25, run top to bottom in a  *)
(* fresh kernel.  A notebook is a sequence of statements; the state is the *)
(* kernel's namespace (env), the position of the run (pc) and what the run *)
(* has done so far (log).  Every value carries what the notebooks' glue    *)
(* code depends on: its number of rows, its column labels, the rows of the *)
(* originating table it holds, and the rows whose feature values it has    *)
(* been computed from.  The numerical libraries are the environment: a     *)
(* call is modelled by its effect on shapes, labels and row sets, and by   *)
(* the exception it raises when these do not fit.  Calls that only         *)
(* decorate a figure (xlabel, legend, show, ...) read no name of the       *)
(* notebook and are part of the plot statement they follow.                *)
(***************************************************************************)
EXTENDS Integers, Sequences, FiniteSets, TLC

VARIABLES nb, degree, shuffle, pc, env, status, err, log, testRows, discarded,
          email_list, predicted, returned

vars == <<nb, degree, shuffle, pc, env, status, err, log, testRows, discarded,
          email_list, predicted, returned>>

(* Number of candidate permutations the shuffle of train_test_split may use. *)
NumShuffles == 3

Range(s) == {s[i] : i \in DOMAIN s}

Unnamed(w) == [i \in 1..w |-> ToString(i - 1)]

----------------------------------------------------------------------------
(* Values of the namespace.  nan holds the <<column, row>> places of a      *)
(* table where the value is missing.                                       *)

Lib ==
  [k |-> "lib", cls |-> "module", n |-> 0, rows |-> 0, cols |-> <<>>,
   tcols |-> <<>>, idx |-> {}, infl |-> {}, ds |-> {}, role |-> "none",
   fitted |-> FALSE, nan |-> {}]

Func == [Lib EXCEPT !.k = "func", !.cls = "function"]

Scalar(v) == [Lib EXCEPT !.k = "scalar", !.cls = "number", !.n = v]

Data(cls, rows, cols, idx, infl, ds, role) ==
  [Lib EXCEPT !.k = "data", !.cls = cls, !.rows = rows, !.cols = cols,
              !.idx = idx, !.infl = infl, !.ds = ds, !.role = role]

Estimator(cls, param) == [Lib EXCEPT !.k = "est", !.cls = cls, !.n = param]

----------------------------------------------------------------------------
(* Operands: how a statement reads a value of the namespace *)

Operand(how, v) ==
  [how |-> how, v |-> v, sel |-> <<>>, ix |-> 0, rows |-> 0, width |-> 0]

(* the whole value: X *)
N(v) == Operand("all", v)

(* one column by label, a Series: df['Spam'] *)
C(v, label) == [Operand("col", v) EXCEPT !.sel = <<label>>]

(* columns by a list of labels, a DataFrame: df[['Kp', 'Ki', 'Kd']] *)
Cs(v, labels) == [Operand("cols", v) EXCEPT !.sel = labels]

(* one column by position: X_test[:, 0] *)
Ix(v, i) == [Operand("ix", v) EXCEPT !.ix = i]

(* range(len(v)) *)
Rg(v) == Operand("range", v)

(* a literal array: np.array([[2200]]) *)
L(rows, width) == [Operand("lit", "") EXCEPT !.rows = rows, !.width = width]

(* an array built in place with as many rows as the number v holds *)
Sz(v) == Operand("sized", v)

(* obj.predict(v) used in place *)
P(obj, v) == [Operand("predict", v) EXCEPT !.sel = <<obj>>]

OperandNames(a) ==
  {a[i].v : i \in {j \in DOMAIN a : a[j].how # "lit"}}
    \cup {a[i].sel[1] : i \in {j \in DOMAIN a : a[j].how = "predict"}}

(* the exception evaluating operand o raises, "" when it raises none *)
OperandError(e, o) ==
  CASE o.how \in {"col", "cols"} ->
         IF e[o.v].cls \in {"DataFrame", "dict", "Bunch"}
         THEN IF Range(o.sel) \subseteq Range(e[o.v].cols) THEN "" ELSE "KeyError"
         ELSE IF e[o.v].cls = "Series" THEN "KeyError" ELSE "IndexError"
    [] o.how = "ix" ->
         IF e[o.v].cls # "ndarray" THEN "InvalidIndexError"
         ELSE IF o.ix < Len(e[o.v].cols) THEN "" ELSE "IndexError"
    [] o.how = "predict" ->
         IF e[o.sel[1]].k # "est" THEN "AttributeError"
         ELSE IF ~e[o.sel[1]].fitted THEN "NotFittedError"
         ELSE IF Len(e[o.v].cols) # Len(e[o.sel[1]].cols) THEN "ValueError"
         ELSE ""
    [] OTHER -> ""

(* what obj.predict(x) returns: one row for each row of x, one column for *)
(* each target column the estimator was fitted on                         *)
Prediction(est, x) ==
  Data("ndarray", x.rows, est.tcols, x.idx, x.infl \cup est.infl, x.ds, "pred")

Val(e, o) ==
  CASE o.how = "all" -> e[o.v]
    [] o.how = "col" ->
         [e[o.v] EXCEPT !.cols = o.sel, !.cls = "Series",
                        !.nan = {p \in @ : p[1] \in Range(o.sel)}]
    [] o.how = "cols" ->
         [e[o.v] EXCEPT !.cols = o.sel, !.cls = "DataFrame",
                        !.nan = {p \in @ : p[1] \in Range(o.sel)}]
    [] o.how = "ix" -> [e[o.v] EXCEPT !.cols = <<e[o.v].cols[o.ix + 1]>>]
    [] o.how = "range" ->
         [e[o.v] EXCEPT !.cols = <<"0">>, !.cls = "range", !.role = "none"]
    [] o.how = "lit" ->
         Data("ndarray", o.rows, Unnamed(o.width), 1..o.rows, {}, {}, "none")
    [] o.how = "sized" ->
         Data("ndarray", e[o.v].n, <<"0">>, 1..e[o.v].n, {}, {}, "none")
    [] o.how = "predict" -> Prediction(e[o.sel[1]], e[o.v])

----------------------------------------------------------------------------
(* Statements.  line and cell place the statement in its notebook file;    *)
(* libs are the imported and global names it reads besides its operands;   *)
(* w the names it binds; a its operands; obj the estimator it calls a      *)
(* method of; tbl the table it assigns columns of; try whether it stands   *)
(* in the body of a try statement that catches what it raises; label the   *)
(* algorithm and the target its printed text or title names; rng the       *)
(* random generator it draws from: "global" for numpy's np.random          *)
(* functions, "own" for a call given random_state, "none" for no draw.     *)

St(line, cell, op, stage) ==
  [line |-> line, cell |-> cell, op |-> op, stage |-> stage, libs |-> {},
   w |-> <<>>, a |-> <<>>, obj |-> "", tbl |-> "", cols |-> <<>>,
   cls |-> "", n |-> 0, m |-> 0, frac |-> <<0, 1>>, try |-> FALSE,
   label |-> <<>>, rng |-> "none"]

(* a print or a plot whose text names an algorithm and a target *)
Labelled(s, algorithm, target) == [s EXCEPT !.label = <<algorithm, target>>]

Import(line, cell, names) ==
  [St(line, cell, "import", "import") EXCEPT !.w = names]

(* name = 1000 *)
Assign(line, cell, name, v) ==
  [St(line, cell, "assign", "config") EXCEPT !.w = <<name>>, !.n = v]

(* a literal list, dict, tuple or array of `rows` rows *)
Literal(line, cell, name, cls, rows, cols, libs) ==
  [St(line, cell, "literal", "generate") EXCEPT
     !.w = <<name>>, !.cls = cls, !.n = rows, !.cols = cols, !.libs = libs]

(* name = np.random.<dist>(..., sizeName) *)
Sample(line, cell, name, libs, sizeName) ==
  [St(line, cell, "sample", "generate") EXCEPT
     !.w = <<name>>, !.libs = libs, !.a = <<N(sizeName)>>, !.m = 1,
     !.rng = "global"]

(* name = np.random.<dist>(..., rows) *)
SampleN(line, cell, name, libs, rows) ==
  [St(line, cell, "sample", "generate") EXCEPT
     !.w = <<name>>, !.libs = libs, !.n = rows, !.m = 1, !.rng = "global"]

(* X, y = make_classification(n_samples=rows, n_features=features, ...) *)
MakeClassification(line, cell, names, rows, features) ==
  [St(line, cell, "make_classification", "generate") EXCEPT
     !.w = names, !.libs = {"make_classification"}, !.n = rows, !.m = features,
     !.rng = "own"]

(* name = <arithmetic over arrays of equal length> *)
Elementwise(line, cell, name, libs, operands) ==
  [St(line, cell, "elementwise", "generate") EXCEPT
     !.w = <<name>>, !.libs = libs, !.a = operands]

(* name = pd.DataFrame({label: array, ...}) or name = {label: array, ...} *)
Frame(line, cell, name, cls, libs, labels, operands) ==
  [St(line, cell, "frame", "generate") EXCEPT
     !.w = <<name>>, !.cls = cls, !.libs = libs, !.cols = labels, !.a = operands]

(* name = pd.DataFrame(d), name = t[[...]], name = t[...].values, reshape *)
Convert(line, cell, stage, name, cls, libs, operand) ==
  [St(line, cell, "convert", stage) EXCEPT
     !.w = <<name>>, !.cls = cls, !.libs = libs, !.a = <<operand>>]

(* name = [f'<prefix>{i+1}' for i in range(t.shape[1])] *)
ColumnNames(line, cell, name, prefix, operand) ==
  [St(line, cell, "column_names", "generate") EXCEPT
     !.w = <<name>>, !.cls = prefix, !.a = <<operand>>]

(* name = pd.DataFrame(t, columns=names) *)
ConvertNamed(line, cell, name, libs, operand, names) ==
  [St(line, cell, "convert_named", "generate") EXCEPT
     !.w = <<name>>, !.libs = libs, !.a = <<operand, names>>]

(* name = t: the table with the column label left in *)
DropNothing(line, cell, name, t, label) ==
  [St(line, cell, "convert", "select") EXCEPT
     !.w = <<name>>, !.cls = "DataFrame", !.a = <<N(t)>>]

(* name = t.drop(label, axis=1) *)
Drop(line, cell, name, t, label) ==
  [St(line, cell, "drop", "select") EXCEPT
     !.w = <<name>>, !.a = <<N(t)>>, !.cols = <<label>>]

(* t[labels] = <expression over operands>, or an in-place method of t[labels] *)
SetCol(line, cell, stage, t, labels, operands) ==
  [St(line, cell, "setcol", stage) EXCEPT
     !.tbl = t, !.cols = labels, !.a = operands]

(* t[label].interpolate(inplace=True) *)
Interpolate(line, cell, t, label) ==
  [St(line, cell, "setcol", "preprocess") EXCEPT
     !.tbl = t, !.cols = <<label>>, !.a = <<C(t, label)>>,
     !.cls = "interpolate"]

(* t[label] = t[of].rolling(window=window).mean() *)
RollingMean(line, cell, t, label, of, window) ==
  [St(line, cell, "setcol", "preprocess") EXCEPT
     !.tbl = t, !.cols = <<label>>, !.a = <<C(t, of)>>,
     !.cls = "rolling", !.n = window]

(* name = Class(...) *)
New(line, cell, name, cls, libs) ==
  [St(line, cell, "new", "construct") EXCEPT
     !.w = <<name>>, !.cls = cls, !.libs = libs]

(* name = Class(param=paramName) *)
NewP(line, cell, name, cls, libs, paramName) ==
  [St(line, cell, "new", "construct") EXCEPT
     !.w = <<name>>, !.cls = cls, !.libs = libs, !.a = <<N(paramName)>>]

(* name = obj.fit_transform(operand) *)
FitTransform(line, cell, name, obj, operand) ==
  [St(line, cell, "fit_transform", "preprocess") EXCEPT
     !.w = <<name>>, !.obj = obj, !.a = <<operand>>]

(* t[labels] = obj.fit_transform(t[labels]) *)
FitTransformSet(line, cell, t, labels, obj) ==
  [St(line, cell, "fit_transform_set", "preprocess") EXCEPT
     !.tbl = t, !.cols = labels, !.obj = obj, !.a = <<Cs(t, labels)>>]

(* name = obj.transform(operand) *)
Transform(line, cell, name, obj, operand) ==
  [St(line, cell, "transform", "preprocess") EXCEPT
     !.w = <<name>>, !.obj = obj, !.a = <<operand>>]

(* names = train_test_split(X, y, test_size=num/den, random_state=42) *)
Split(line, cell, names, X, y, num, den) ==
  [St(line, cell, "split", "split") EXCEPT
     !.w = names, !.libs = {"train_test_split"}, !.a = <<X, y>>,
     !.frac = <<num, den>>]

(* obj.fit(X, y) *)
Fit(line, cell, obj, X, y) ==
  [St(line, cell, "fit", "fit") EXCEPT !.obj = obj, !.a = <<X, y>>]

(* names = obj.predict(X_train): the predictions of the training rows *)
PredictOnTrain(line, cell, names, obj, libs, X) ==
  [St(line, cell, "predict", "predict") EXCEPT
     !.w = names, !.obj = obj, !.libs = libs, !.a = <<N("X_train")>>]

(* names = obj.predict(X); names is empty when the result is used in place *)
Predict(line, cell, names, obj, libs, X) ==
  [St(line, cell, "predict", "predict") EXCEPT
     !.w = names, !.obj = obj, !.libs = libs, !.a = <<X>>]

(* name = obj.score(X, y) *)
Score(line, cell, name, obj, X, y) ==
  [St(line, cell, "score", "evaluate") EXCEPT
     !.w = <<name>>, !.obj = obj, !.a = <<X, y>>]

(* try: names = metric(y_true, y_pred) / except Exception: pass *)
MetricInTry(line, cell, names, libs, yTrue, yPred) ==
  [St(line, cell, "metric", "evaluate") EXCEPT
     !.w = names, !.libs = libs, !.a = <<yTrue, yPred>>, !.try = TRUE]

(* names = metric(y_true, y_pred); names is empty when the result is printed *)
Metric(line, cell, names, libs, yTrue, yPred) ==
  [St(line, cell, "metric", "evaluate") EXCEPT
     !.w = names, !.libs = libs, !.a = <<yTrue, yPred>>]

(* plt.scatter(x, y, ...), plt.plot(x, y, ...), plot_predictions(t, p, title) *)
Plot(line, cell, libs, operands) ==
  [St(line, cell, "plot", "plot") EXCEPT !.libs = libs, !.a = operands]

(* tree.plot_tree(obj, ...) *)
PlotTree(line, cell, obj, libs) ==
  [St(line, cell, "plot_tree", "plot") EXCEPT !.obj = obj, !.libs = libs]

(* names = plt.subplots(...) *)
Figure(line, cell, names, libs) ==
  [St(line, cell, "figure", "figure") EXCEPT !.w = names, !.libs = libs]

(* print(...), a cell's last expression, a title that formats a name *)
Display(line, cell, libs, operands) ==
  [St(line, cell, "display", "print") EXCEPT !.libs = libs, !.a = operands]

(* name = <arithmetic over numbers> *)
Compute(line, cell, name, operands) ==
  [St(line, cell, "compute", "compute") EXCEPT !.w = <<name>>, !.a = operands]

(* np.random.seed(v) *)
Seed(line, cell, v) ==
  [St(line, cell, "seed", "config") EXCEPT !.libs = {"np"}, !.n = v]

(* def name(...): ... *)
Def(line, cell, name) ==
  [St(line, cell, "def", "define") EXCEPT !.w = <<name>>]

(* names = obj.<fitted attribute>; names is empty when it is printed *)
Attr(line, cell, names, obj) ==
  [St(line, cell, "attr", "inspect") EXCEPT !.w = names, !.obj = obj]

Reads(s) ==
  s.libs \cup OperandNames(s.a)
    \cup (IF s.obj = "" THEN {} ELSE {s.obj})
    \cup (IF s.tbl = "" THEN {} ELSE {s.tbl})

Writes(s) == Range(s.w)

----------------------------------------------------------------------------
(* The notebooks *)

PidFeatures == <<"Error", "Derivative", "Integral", "Setpoint">>

PidTargets == <<"Kp", "Ki", "Kd">>

(* cell 2 of both PID notebooks: the simulated controller data *)
PidData(c, at) ==
  << Seed(at, c, 42),
     Assign(at + 3, c, "n_samples", 1000),
     Sample(at + 4, c, "error", {"np"}, "n_samples"),
     Sample(at + 5, c, "derivative", {"np"}, "n_samples"),
     Elementwise(at + 6, c, "integral", {"np"}, <<N("error")>>),
     Sample(at + 7, c, "setpoint", {"np"}, "n_samples"),
     Elementwise(at + 10, c, "Kp", {}, <<N("error"), N("derivative")>>),
     Elementwise(at + 11, c, "Ki", {}, <<N("integral")>>),
     Elementwise(at + 12, c, "Kd", {}, <<N("derivative")>>),
     Frame(at + 15, c, "data", "DataFrame", {"pd"}, PidFeatures \o PidTargets,
           <<N("error"), N("derivative"), N("integral"), N("setpoint"),
             N("Kp"), N("Ki"), N("Kd")>>),
     Display(at + 24, c, {}, <<N("data")>>) >>

(* model = Class(...); model.fit(X_train, y_train[target]) *)
PidFit(at, model, cls, lib, target) ==
  << New(at, 4, model, cls, {lib}),
     Fit(at + 1, 4, model, N("X_train"), C("y_train", target)) >>

PidBoostTrain ==
  PidFit(136, "ada_model_kp", "AdaBoostRegressor", "AdaBoostRegressor", "Kp")
  \o PidFit(140, "ada_model_ki", "AdaBoostRegressor", "AdaBoostRegressor", "Ki")
  \o PidFit(144, "ada_model_kd", "AdaBoostRegressor", "AdaBoostRegressor", "Kd")
  \o PidFit(148, "gb_model_kp", "GradientBoostingRegressor",
            "GradientBoostingRegressor", "Kp")
  \o PidFit(152, "gb_model_ki", "GradientBoostingRegressor",
            "GradientBoostingRegressor", "Ki")
  \o PidFit(156, "gb_model_kd", "GradientBoostingRegressor",
            "GradientBoostingRegressor", "Kd")
  \o PidFit(160, "xg_model_kp", "XGBRegressor", "xgb", "Kp")
  \o PidFit(164, "xg_model_ki", "XGBRegressor", "xgb", "Ki")
  \o PidFit(168, "xg_model_kd", "XGBRegressor", "xgb", "Kd")

PidBoostPredict ==
  << Predict(193, 5, <<"ada_predictions_kp">>, "ada_model_kp", {}, N("X_test")),
     Predict(194, 5, <<"ada_predictions_ki">>, "ada_model_ki", {}, N("X_test")),
     Predict(195, 5, <<"ada_predictions_kd">>, "ada_model_kd", {}, N("X_test")),
     Predict(197, 5, <<"gb_predictions_kp">>, "gb_model_kp", {}, N("X_test")),
     Predict(198, 5, <<"gb_predictions_ki">>, "gb_model_ki", {}, N("X_test")),
     Predict(199, 5, <<"gb_predictions_kd">>, "gb_model_kd", {}, N("X_test")),
     Predict(201, 5, <<"xg_predictions_kp">>, "xg_model_kp", {}, N("X_test")),
     Predict(202, 5, <<"xg_predictions_ki">>, "xg_model_ki", {}, N("X_test")),
     Predict(203, 5, <<"xg_predictions_kd">>, "xg_model_kd", {}, N("X_test")) >>

(* r2 = r2_score(y_test['Kp'], predictions) *)
PidR2Kp(at, r2, target, predictions) ==
  Metric(at, 5, <<r2>>, {"r2_score"}, C("y_test", "Kp"), N(predictions))

(* r2 = r2_score(y_test[target], predictions) *)
PidR2(at, r2, target, predictions) ==
  Metric(at, 5, <<r2>>, {"r2_score"}, C("y_test", target), N(predictions))

(* print(f'<algorithm> R2 for <target>: {r2:.2f}') *)
PidPrint(at, algorithm, target, r2) ==
  Labelled(Display(at, 5, {}, <<N(r2)>>), algorithm, target)

PidBoostScore ==
  << PidR2(206, "r2_ada_kp", "Kp", "ada_predictions_kp"),
     PidR2(207, "r2_ada_ki", "Ki", "ada_predictions_ki"),
     PidR2(208, "r2_ada_kd", "Kd", "ada_predictions_kd"),
     PidR2(209, "r2_gb_kp", "Kp", "gb_predictions_kp"),
     PidR2(210, "r2_gb_ki", "Ki", "gb_predictions_ki"),
     PidR2(211, "r2_gb_kd", "Kd", "gb_predictions_kd"),
     PidR2(212, "r2_xg_kp", "Kp", "xg_predictions_kp"),
     PidR2(213, "r2_xg_ki", "Ki", "xg_predictions_ki"),
     PidR2(214, "r2_xg_kd", "Kd", "xg_predictions_kd"),
     PidPrint(217, "AdaBoost", "Kp", "r2_ada_kp"),
     PidPrint(218, "AdaBoost", "Ki", "r2_ada_ki"),
     PidPrint(219, "AdaBoost", "Kd", "r2_ada_kd"),
     PidPrint(220, "Gradient Boosting", "Kp", "r2_gb_kp"),
     PidPrint(221, "Gradient Boosting", "Ki", "r2_gb_ki"),
     PidPrint(222, "Gradient Boosting", "Kd", "r2_gb_kd"),
     PidPrint(223, "XGBoost", "Kp", "r2_xg_kp"),
     PidPrint(224, "XGBoost", "Ki", "r2_xg_ki"),
     PidPrint(225, "XGBoost", "Kd", "r2_xg_kd") >>

(* plot_predictions(y_test[target], y_test[target], title) *)
PidPlotTruthOnly(at, algorithm, target, predictions) ==
  Labelled(Plot(at, 6, {"plot_predictions", "plt"},
                <<C("y_test", target), C("y_test", target)>>),
           algorithm, target)

(* plot_predictions(y_test[target], predictions,                           *)
(*                  '<algorithm>: <target> Predictions vs True Values')    *)
PidPlot(at, algorithm, target, predictions) ==
  Labelled(Plot(at, 6, {"plot_predictions", "plt"},
                <<C("y_test", target), N(predictions)>>),
           algorithm, target)

PidBoostPlot ==
  << Def(249, 6, "plot_predictions"),
     PidPlot(259, "AdaBoost", "Kp", "ada_predictions_kp"),
     PidPlot(261, "Gradient Boosting", "Kp", "gb_predictions_kp"),
     PidPlot(263, "XGBoost", "Kp", "xg_predictions_kp"),
     PidPlot(267, "AdaBoost", "Ki", "ada_predictions_ki"),
     PidPlot(269, "Gradient Boosting", "Ki", "gb_predictions_ki"),
     PidPlot(271, "XGBoost", "Ki", "xg_predictions_ki"),
     PidPlot(275, "AdaBoost", "Kd", "ada_predictions_kd"),
     PidPlot(277, "Gradient Boosting", "Kd", "gb_predictions_kd"),
     PidPlot(279, "XGBoost", "Kd", "xg_predictions_kd") >>

(* src/unnamed/part_000: PID Controller Tuning using Boosting Models *)
PidBoosting ==
  << Import(25, 1, <<"np", "pd", "train_test_split", "r2_score",
                     "StandardScaler", "AdaBoostRegressor",
                     "GradientBoostingRegressor", "xgb", "plt">>) >>
  \o PidData(2, 56)
  \o << Convert(104, 3, "select", "X", "DataFrame", {},
                Cs("data", PidFeatures)),
        New(107, 3, "scaler", "StandardScaler", {"StandardScaler"}),
        FitTransform(108, 3, "X_scaled", "scaler", N("X")),
        Split(111, 3, <<"X_train", "X_test", "y_train", "y_test">>,
              N("X_scaled"), Cs("data", PidTargets), 2, 10) >>
  \o PidBoostTrain \o PidBoostPredict \o PidBoostScore \o PidBoostPlot

(* plt.scatter(range(len(y_test)), y_test[target]) and the same of the     *)
(* predictions' column                                                     *)
ForestPlot(at, c, target, predictions, column) ==
  << Plot(at, c, {"plt"}, <<Rg("y_test"), C("y_test", target)>>),
     Plot(at + 1, c, {"plt"}, <<Rg("y_test"), Ix(predictions, column)>>) >>

(* src/unnamed/part_001, first notebook: PID Parameter Prediction using   *)
(* Random Forest                                                           *)
PidForest ==
  << Import(38, 1, <<"np", "pd", "train_test_split", "DecisionTreeRegressor",
                     "RandomForestRegressor", "r2_score", "StandardScaler",
                     "plt">>) >>
  \o PidData(2, 70)
  \o << Convert(119, 3, "select", "X", "DataFrame", {},
                Cs("data", PidFeatures)),
        Convert(120, 3, "select", "y", "DataFrame", {}, Cs("data", PidTargets)),
        New(123, 3, "scaler", "StandardScaler", {"StandardScaler"}),
        FitTransform(124, 3, "X_scaled", "scaler", N("X")),
        Split(127, 3, <<"X_train", "X_test", "y_train", "y_test">>,
              N("X_scaled"), N("y"), 2, 10),
        New(152, 4, "dt_model", "DecisionTreeRegressor",
            {"DecisionTreeRegressor"}),
        Fit(153, 4, "dt_model", N("X_train"), N("y_train")),
        New(156, 4, "rf_model", "RandomForestRegressor",
            {"RandomForestRegressor"}),
        Fit(157, 4, "rf_model", N("X_train"), N("y_train")),
        Predict(182, 5, <<"dt_predictions">>, "dt_model", {}, N("X_test")),
        Predict(183, 5, <<"rf_predictions">>, "rf_model", {}, N("X_test")),
        Metric(208, 6, <<"dt_r2_kp">>, {"r2_score"},
               C("y_test", "Kp"), Ix("dt_predictions", 0)),
        Metric(209, 6, <<"rf_r2_kp">>, {"r2_score"},
               C("y_test", "Kp"), Ix("rf_predictions", 0)),
        Metric(211, 6, <<"dt_r2_ki">>, {"r2_score"},
               C("y_test", "Ki"), Ix("dt_predictions", 1)),
        Metric(212, 6, <<"rf_r2_ki">>, {"r2_score"},
               C("y_test", "Ki"), Ix("rf_predictions", 1)),
        Metric(214, 6, <<"dt_r2_kd">>, {"r2_score"},
               C("y_test", "Kd"), Ix("dt_predictions", 2)),
        Metric(215, 6, <<"rf_r2_kd">>, {"r2_score"},
               C("y_test", "Kd"), Ix("rf_predictions", 2)),
        Display(219, 6, {}, <<N("dt_r2_kp")>>),
        Display(220, 6, {}, <<N("dt_r2_ki")>>),
        Display(221, 6, {}, <<N("dt_r2_kd")>>),
        Display(224, 6, {}, <<N("rf_r2_kp")>>),
        Display(225, 6, {}, <<N("rf_r2_ki")>>),
        Display(226, 6, {}, <<N("rf_r2_kd")>>) >>
  \o ForestPlot(256, 7, "Kp", "dt_predictions", 0)
  \o ForestPlot(264, 7, "Ki", "dt_predictions", 1)
  \o ForestPlot(272, 7, "Kd", "dt_predictions", 2)
  \o ForestPlot(310, 8, "Kp", "rf_predictions", 0)
  \o ForestPlot(318, 8, "Ki", "rf_predictions", 1)
  \o ForestPlot(326, 8, "Kd", "rf_predictions", 2)

(* the spam table with its third column under another label *)
SpamColumnsRenamed == <<"EmailID", "WordCount", "CapFreq", "Spam">>

SpamColumns == <<"EmailID", "WordCount", "CapFrequency", "Spam">>

(* The Gaussian Naive Bayes spam notebook up to its evaluation; l holds    *)
(* the lines of its statements and c the number of cells before the split  *)
(* cell (the checkpoint copy lacks the cell that displays df)              *)
GnbPipeline(l, c) ==
  << Import(l[1], 1, <<"np", "pd", "GaussianNB", "train_test_split",
                       "accuracy_score", "confusion_matrix">>),
     Literal(l[2], 2, "data", "dict", 20, SpamColumns, {"np"}),
     Convert(l[3], 2, "generate", "df", "DataFrame", {"pd"}, N("data")) >>
  \o (IF c = 3 THEN << Display(l[4], 3, {}, <<N("df")>>) >> ELSE << >>)
  \o << Convert(l[5], c + 1, "select", "X", "DataFrame", {},
                Cs("df", <<"WordCount", "CapFrequency">>)),
        Convert(l[6], c + 1, "select", "y", "Series", {}, C("df", "Spam")),
        Split(l[7], c + 1, <<"X_train", "X_test", "y_train", "y_test">>,
              N("X"), N("y"), 2, 10),
        Display(l[8], c + 1, {}, <<N("X_train")>>),
        Display(l[9], c + 1, {}, <<N("X_test")>>),
        New(l[10], c + 2, "gnb", "GaussianNB", {"GaussianNB"}),
        Fit(l[11], c + 2, "gnb", N("X_train"), N("y_train")),
        Attr(l[12], c + 2, <<>>, "gnb"),
        Attr(l[13], c + 2, <<>>, "gnb"),
        Predict(l[14], c + 3, <<"y_pred">>, "gnb", {}, N("X_test")),
        Display(l[15], c + 3, {}, <<N("y_pred")>>),
        Display(l[16], c + 3, {}, <<N("y_test")>>),
        Metric(l[17], c + 3, <<"accuracy">>, {"accuracy_score"},
               N("y_test"), N("y_pred")),
        Display(l[18], c + 3, {}, <<N("accuracy")>>),
        Metric(l[19], c + 3, <<"cm">>, {"confusion_matrix"},
               N("y_test"), N("y_pred")),
        Display(l[20], c + 3, {}, <<N("cm")>>) >>

(* src/unnamed/part_001, second notebook: Gaussian Naive Bayes Assisted   *)
(* Spam Email Filtering, with its functions for unseen input               *)
GnbSpam ==
  GnbPipeline(<<384, 412, 419, 425, 454, 455, 458, 461, 462, 485, 488, 492,
                493, 515, 518, 519, 522, 523, 526, 528>>, 3)
  \o << Def(544, 7, "predict_single_email"),
        [Literal(561, 8, "sample_email", "tuple", 1, Unnamed(2), {})
           EXCEPT !.stage = "input"],
        Predict(562, 8, <<>>, "gnb", {"predict_single_email", "np"},
                N("sample_email")),
        Def(574, 9, "predict_batch_emails"),
        [Literal(591, 10, "sample_batch", "list", 3, Unnamed(2), {})
           EXCEPT !.stage = "input"],
        Predict(593, 10, <<>>, "gnb", {"predict_batch_emails", "np"},
                N("sample_batch")) >>

(* src/lec/lec03/.ipynb_checkpoints/Lec3-2_Demo-checkpoint.ipynb *)
GnbCheckpoint ==
  GnbPipeline(<<19, 43, 50, 50, 69, 70, 73, 76, 77, 96, 99, 103, 104, 122,
                125, 126, 129, 130, 133, 135>>, 2)

SplitNames == <<"X_train", "X_test", "y_train", "y_test">>

(* src/unnamed/part_002, first notebook: Stock Price Prediction using     *)
(* Polynomial Regression, with poly_degree set to d in its cell 5          *)
Stock(d) ==
  << Import(34, 1, <<"pd", "np", "plt", "PolynomialFeatures",
                     "train_test_split", "LinearRegression",
                     "mean_squared_error", "r2_score", "sqrt",
                     "StandardScaler">>),
     Assign(78, 2, "initial_price", 100),
     Assign(79, 2, "volatility", 1),
     Assign(80, 2, "n_days", 500),
     Sample(83, 2, "daily_returns", {"np", "volatility"}, "n_days"),
     Elementwise(86, 2, "stock_prices", {"np", "initial_price"},
                 <<N("daily_returns")>>),
     Frame(89, 2, "df", "DataFrame", {"pd"}, <<"Date", "Stock Price">>,
           <<Sz("n_days"), N("stock_prices")>>),
     Interpolate(109, 3, "df", "Stock Price"),
     RollingMean(112, 3, "df", "Moving Average", "Stock Price", 5),
     New(115, 3, "scaler", "StandardScaler", {"StandardScaler"}),
     SetCol(116, 3, "preprocess", "df", <<"Date">>, <<C("df", "Date")>>),
     FitTransformSet(117, 3, "df", <<"Date", "Stock Price">>, "scaler"),
     Plot(141, 4, {"plt"}, <<C("df", "Date"), C("df", "Stock Price")>>),
     Assign(179, 5, "poly_degree", d),
     NewP(180, 5, "poly", "PolynomialFeatures", {"PolynomialFeatures"},
          "poly_degree"),
     Convert(183, 5, "select", "X", "ndarray", {}, Cs("df", <<"Date">>)),
     Convert(184, 5, "select", "y", "ndarray", {}, C("df", "Stock Price")),
     FitTransform(187, 5, "X_poly", "poly", N("X")),
     Plot(208, 6, {"plt"}, <<N("X"), N("y")>>),
     FitTransform(215, 6, "X_poly_transformed", "poly", N("X")),
     Plot(217, 6, {"plt"}, <<N("X"), Ix("X_poly_transformed", 1)>>),
     Plot(218, 6, {"plt"}, <<N("X"), Ix("X_poly_transformed", 2)>>),
     Plot(219, 6, {"plt"}, <<N("X"), Ix("X_poly_transformed", 3)>>),
     Display(222, 6, {"plt"}, <<N("poly_degree")>>),
     Split(259, 7, SplitNames, N("X_poly"), N("y"), 2, 10),
     New(262, 7, "model", "LinearRegression", {"LinearRegression"}),
     Fit(263, 7, "model", N("X_train"), N("y_train")),
     Predict(266, 7, <<"y_pred">>, "model", {}, N("X_poly")),
     Plot(268, 7, {"plt"}, <<N("X"), N("y")>>),
     Plot(269, 7, {"plt", "poly_degree"}, <<N("X"), N("y_pred")>>),
     Display(272, 7, {"plt"}, <<N("poly_degree")>>),
     Import(292, 8, <<"mean_squared_error", "r2_score">>),
     Predict(295, 8, <<"y_train_pred">>, "model", {}, N("X_train")),
     Predict(296, 8, <<"y_test_pred">>, "model", {}, N("X_test")),
     Metric(298, 8, <<"rmse_train">>, {"sqrt", "mean_squared_error"},
            N("y_train"), N("y_train_pred")),
     Metric(299, 8, <<"rmse_test">>, {"sqrt", "mean_squared_error"},
            N("y_test"), N("y_test_pred")),
     Metric(300, 8, <<"r2_train">>, {"r2_score"},
            N("y_train"), N("y_train_pred")),
     Metric(301, 8, <<"r2_test">>, {"r2_score"},
            N("y_test"), N("y_test_pred")),
     Display(303, 8, {}, <<N("rmse_train")>>),
     Display(304, 8, {}, <<N("rmse_test")>>),
     Display(305, 8, {}, <<N("r2_train")>>),
     Display(306, 8, {}, <<N("r2_test")>>) >>

(* src/unnamed/part_002, second notebook: Predicting House Prices Using   *)
(* Linear Regression                                                       *)
House ==
  << Import(403, 1, <<"np", "plt", "LinearRegression", "train_test_split",
                      "mean_squared_error", "r2_score">>),
     Literal(428, 2, "X", "ndarray", 5, <<"0">>, {"np"}),
     Literal(429, 2, "y", "ndarray", 5, <<"0">>, {"np"}),
     Seed(441, 3, 42),
     SampleN(442, 3, "X", {"np"}, 1000),
     [Elementwise(445, 3, "y", {"np"}, <<N("X"), L(1000, 1)>>)
        EXCEPT !.rng = "global"],
     Display(447, 3, {}, <<N("X")>>),
     Display(448, 3, {}, <<N("y")>>),
     Split(470, 4, SplitNames, N("X"), N("y"), 2, 10),
     Display(472, 4, {}, <<N("X_train")>>),
     Display(473, 4, {}, <<N("X_test")>>),
     New(495, 5, "model", "LinearRegression", {"LinearRegression"}),
     Fit(496, 5, "model", N("X_train"), N("y_train")),
     Attr(499, 5, <<"theta_0">>, "model"),
     Attr(500, 5, <<"theta_1">>, "model"),
     Display(502, 5, {}, <<N("theta_0")>>),
     Display(503, 5, {}, <<N("theta_1")>>),
     Predict(525, 6, <<"y_pred">>, "model", {}, N("X_test")),
     Metric(526, 6, <<"mse">>, {"mean_squared_error"},
            N("y_test"), N("y_pred")),
     Metric(527, 6, <<"r2">>, {"r2_score"}, N("y_test"), N("y_pred")),
     Display(529, 6, {}, <<N("mse")>>),
     Display(530, 6, {}, <<N("r2")>>),
     Predict(552, 7, <<"predicted_price">>, "model", {"np"}, L(1, 1)),
     Display(554, 7, {}, <<N("predicted_price")>>),
     Plot(576, 8, {"plt"}, <<N("X_test"), N("y_test")>>),
     Plot(577, 8, {"plt"}, <<N("X_test"), P("model", "X_test")>>) >>

LoanFeatures == <<"Income", "Age", "Credit Score">>

(* cells 1 to 3 of the loan notebook: the table and its split *)
LoanData ==
  << Import(32, 1, <<"np", "pd", "train_test_split", "StandardScaler",
                     "LogisticRegression", "accuracy_score",
                     "precision_score", "recall_score", "f1_score",
                     "confusion_matrix", "plt">>),
     Seed(61, 2, 42),
     Assign(63, 2, "n_samples", 1000),
     Sample(64, 2, "income", {"np"}, "n_samples"),
     Sample(65, 2, "age", {"np"}, "n_samples"),
     Sample(66, 2, "credit_score", {"np"}, "n_samples"),
     Sample(67, 2, "loan_default", {"np"}, "n_samples"),
     Frame(69, 2, "df", "DataFrame", {"pd"}, LoanFeatures \o <<"Loan Default">>,
           <<N("income"), N("age"), N("credit_score"), N("loan_default")>>),
     Convert(97, 3, "select", "X", "DataFrame", {}, Cs("df", LoanFeatures)),
     Convert(98, 3, "select", "y", "Series", {}, C("df", "Loan Default")),
     Split(100, 3, SplitNames, N("X"), N("y"), 2, 10) >>

(* cell 4: the scaler is fitted on the training rows *)
LoanScale ==
  << New(123, 4, "scaler", "StandardScaler", {"StandardScaler"}),
     FitTransform(124, 4, "X_train", "scaler", N("X_train")),
     Transform(125, 4, "X_test", "scaler", N("X_test")) >>

(* cell 5 *)
LoanFit ==
  << New(148, 5, "model", "LogisticRegression", {"LogisticRegression"}),
     Fit(150, 5, "model", N("X_train"), N("y_train")) >>

(* cells 6 and 7 *)
LoanEvaluate ==
  << Predict(173, 6, <<"y_pred">>, "model", {}, N("X_test")),
     Metric(175, 6, <<"accuracy">>, {"accuracy_score"},
            N("y_test"), N("y_pred")),
     Metric(176, 6, <<"precision">>, {"precision_score"},
            N("y_test"), N("y_pred")),
     Metric(177, 6, <<"recall">>, {"recall_score"}, N("y_test"), N("y_pred")),
     Metric(178, 6, <<"f1">>, {"f1_score"}, N("y_test"), N("y_pred")),
     Display(180, 6, {}, <<N("accuracy")>>),
     Display(181, 6, {}, <<N("precision")>>),
     Display(182, 6, {}, <<N("recall")>>),
     Display(183, 6, {}, <<N("f1")>>),
     Metric(185, 6, <<"conf_matrix">>, {"confusion_matrix"},
            N("y_test"), N("y_pred")),
     Display(187, 6, {}, <<N("conf_matrix")>>),
     Plot(211, 7, {"plt"}, <<Ix("X_test", 0), Ix("X_test", 1), N("y_pred")>>) >>

(* the loan notebook with its cells 4 and 5 in the other order *)
LoanScaleAfterFit == LoanData \o LoanFit \o LoanScale \o LoanEvaluate

(* src/unnamed/part_003: Predicting Loan Default using Logistic Regression *)
Loan == LoanData \o LoanScale \o LoanFit \o LoanEvaluate

(* src/lec/lec02/Lec2-3_Demo.ipynb, first notebook: Email Spam            *)
(* Classification using Naive Bayes.  The four emails hold 26 distinct     *)
(* tokens, the columns of the count matrix.                                *)
NaiveBayes ==
  << Import(19, 1, <<"CountVectorizer", "MultinomialNB", "train_test_split",
                     "accuracy_score", "confusion_matrix",
                     "classification_report">>),
     Literal(41, 2, "emails", "list", 4, <<"text">>, {}),
     Literal(48, 2, "labels", "list", 4, <<"spam">>, {}),
     New(75, 3, "vectorizer", "CountVectorizer", {"CountVectorizer"}),
     [FitTransform(76, 3, "X", "vectorizer", N("emails")) EXCEPT !.m = 26],
     Split(87, 4, SplitNames, N("X"), N("labels"), 2, 10),
     New(98, 5, "model", "MultinomialNB", {"MultinomialNB"}),
     Fit(99, 5, "model", N("X_train"), N("y_train")),
     Metric(110, 6, <<"accuracy">>, {"accuracy_score"},
            N("y_test"), N("y_pred")),
     Metric(111, 6, <<"cm">>, {"confusion_matrix"}, N("y_test"), N("y_pred")),
     Metric(112, 6, <<"class_report">>, {"classification_report"},
            N("y_test"), N("y_pred")),
     Display(123, 7, {}, <<N("accuracy")>>),
     Display(125, 7, {}, <<N("cm")>>),
     Display(127, 7, {}, <<N("class_report")>>) >>

IrisFeatures ==
  <<"sepal length (cm)", "sepal width (cm)", "petal length (cm)",
    "petal width (cm)">>

(* src/lec/lec02/Lec2-3_Demo.ipynb, second notebook: Decision Tree        *)
(* Pruning for Iris Dataset (150 samples, four features)                   *)
Pruning ==
  << Import(178, 1, <<"DecisionTreeClassifier", "train_test_split",
                      "load_iris", "cross_val_score">>),
     Literal(206, 2, "data", "Bunch", 150, IrisFeatures \o <<"target">>,
             {"load_iris"}),
     Convert(207, 2, "select", "X", "ndarray", {}, Cs("data", IrisFeatures)),
     Convert(208, 2, "select", "y", "ndarray", {}, C("data", "target")),
     Split(233, 3, SplitNames, N("X"), N("y"), 2, 10),
     New(258, 4, "clf_preprune", "DecisionTreeClassifier",
         {"DecisionTreeClassifier"}),
     Fit(259, 4, "clf_preprune", N("X_train"), N("y_train")),
     Score(284, 5, "train_acc_preprune", "clf_preprune",
           N("X_train"), N("y_train")),
     Score(285, 5, "test_acc_preprune", "clf_preprune",
           N("X_test"), N("y_test")),
     Display(287, 5, {}, <<N("train_acc_preprune"), N("test_acc_preprune")>>),
     New(312, 6, "clf_postprune", "DecisionTreeClassifier",
         {"DecisionTreeClassifier"}),
     Fit(313, 6, "clf_postprune", N("X_train"), N("y_train")),
     Score(338, 7, "train_acc_postprune", "clf_postprune",
           N("X_train"), N("y_train")),
     Score(339, 7, "test_acc_postprune", "clf_postprune",
           N("X_test"), N("y_test")),
     Display(341, 7, {},
             <<N("train_acc_postprune"), N("test_acc_postprune")>>),
     Display(369, 8, {}, <<N("train_acc_preprune"), N("test_acc_preprune")>>),
     Display(370, 8, {},
             <<N("train_acc_postprune"), N("test_acc_postprune")>>) >>

(* src/lec/lec02/Lec2-3_Demo.ipynb, third notebook: Fruit Classification  *)
(* using Decision Trees                                                    *)
Fruit ==
  << Import(429, 1, <<"np", "pd", "DecisionTreeClassifier",
                      "train_test_split", "accuracy_score", "plt", "tree">>),
     Seed(460, 2, 42),
     SampleN(461, 2, "feature1", {"np"}, 100),
     SampleN(462, 2, "feature2", {"np"}, 100),
     Elementwise(465, 2, "labels", {"np"}, <<N("feature1"), N("feature2")>>),
     Frame(468, 2, "df", "DataFrame", {"pd"},
           <<"Feature1", "Feature2", "Label">>,
           <<N("feature1"), N("feature2"), N("labels")>>),
     Convert(497, 3, "select", "X", "ndarray", {},
             Cs("df", <<"Feature1", "Feature2">>)),
     Convert(498, 3, "select", "y", "ndarray", {}, C("df", "Label")),
     Split(501, 3, SplitNames, N("X"), N("y"), 3, 10),
     New(526, 4, "clf_entropy", "DecisionTreeClassifier",
         {"DecisionTreeClassifier"}),
     Fit(527, 4, "clf_entropy", N("X_train"), N("y_train")),
     New(530, 4, "clf_gini", "DecisionTreeClassifier",
         {"DecisionTreeClassifier"}),
     Fit(531, 4, "clf_gini", N("X_train"), N("y_train")),
     Predict(556, 5, <<"y_pred_entropy">>, "clf_entropy", {}, N("X_test")),
     Predict(557, 5, <<"y_pred_gini">>, "clf_gini", {}, N("X_test")),
     Metric(560, 5, <<"accuracy_entropy">>, {"accuracy_score"},
            N("y_test"), N("y_pred_entropy")),
     Metric(561, 5, <<"accuracy_gini">>, {"accuracy_score"},
            N("y_test"), N("y_pred_gini")),
     Compute(564, 5, "classification_error_entropy",
             <<N("accuracy_entropy")>>),
     Compute(565, 5, "classification_error_gini", <<N("accuracy_gini")>>),
     Display(568, 5, {}, <<N("accuracy_entropy")>>),
     Display(569, 5, {}, <<N("classification_error_entropy")>>),
     Display(570, 5, {}, <<N("accuracy_gini")>>),
     Display(571, 5, {}, <<N("classification_error_gini")>>),
     Figure(596, 6, <<"fig", "ax">>, {"plt"}),
     PlotTree(597, 6, "clf_entropy", {"tree", "ax"}),
     Display(598, 6, {"ax"}, <<>>),
     PlotTree(600, 6, "clf_gini", {"tree", "ax"}),
     Display(601, 6, {"ax"}, <<>>) >>

WearableFeatures ==
  <<"heart_rate", "steps", "temperature", "activity_level", "sleep_duration">>

(* src/lec/lec05/Lec5_2_Demo.ipynb: Wearable Sensor Data Analysis for     *)
(* Disease Detection                                                       *)
Wearable ==
  << Import(78, 1, <<"pd">>),
     Literal(81, 1, "data", "dict", 10, WearableFeatures \o <<"label">>, {}),
     Convert(91, 1, "generate", "df", "DataFrame", {"pd"}, N("data")),
     Drop(94, 1, "X", "df", "label"),
     Convert(95, 1, "select", "y", "Series", {}, C("df", "label")),
     Import(111, 2, <<"pd", "np">>),
     Seed(115, 2, 42),
     SampleN(118, 2, "heart_rate", {"np"}, 1000),
     SampleN(119, 2, "steps", {"np"}, 1000),
     SampleN(120, 2, "temperature", {"np"}, 1000),
     SampleN(121, 2, "activity_level", {"np"}, 1000),
     SampleN(122, 2, "sleep_duration", {"np"}, 1000),
     SampleN(123, 2, "label", {"np"}, 1000),
     Frame(126, 2, "data", "dict", {}, WearableFeatures \o <<"label">>,
           <<N("heart_rate"), N("steps"), N("temperature"),
             N("activity_level"), N("sleep_duration"), N("label")>>),
     Convert(135, 2, "generate", "df", "DataFrame", {"pd"}, N("data")),
     Drop(138, 2, "X", "df", "label"),
     Convert(139, 2, "select", "y", "Series", {}, C("df", "label")),
     Display(141, 2, {}, <<N("df")>>),
     Import(183, 3, <<"StandardScaler">>),
     New(186, 3, "scaler", "StandardScaler", {"StandardScaler"}),
     FitTransform(189, 3, "X_scaled", "scaler", N("X")),
     Display(192, 3, {"pd"}, <<N("X_scaled"), N("X")>>),
     Import(226, 4, <<"train_test_split">>),
     Split(229, 4, SplitNames, N("X_scaled"), N("y"), 1, 10),
     Import(263, 5, <<"LogisticRegression">>),
     New(266, 5, "model", "LogisticRegression", {"LogisticRegression"}),
     Fit(269, 5, "model", N("X_train"), N("y_train")),
     Predict(304, 6, <<"y_pred">>, "model", {}, N("X_test")),
     Display(307, 6, {}, <<N("y_pred")>>),
     Import(341, 7, <<"accuracy_score", "classification_report">>),
     Metric(344, 7, <<"accuracy">>, {"accuracy_score"},
            N("y_test"), N("y_pred")),
     Display(345, 7, {}, <<N("accuracy")>>),
     Metric(348, 7, <<>>, {"classification_report"}, N("y_test"), N("y_pred")),
     Import(382, 8, <<"confusion_matrix">>),
     Metric(385, 8, <<"conf_matrix">>, {"confusion_matrix"},
            N("y_test"), N("y_pred")),
     Display(388, 8, {}, <<N("conf_matrix")>>) >>

(* src/lec/lec07/Lec7_1_Demo.ipynb: Bagging and Boosting Approach for     *)
(* Fault Detection in Electrical Systems                                   *)
Bagging ==
  << Import(40, 1, <<"np", "pd", "plt", "make_classification",
                     "train_test_split", "DecisionTreeClassifier",
                     "LogisticRegression", "BaggingClassifier",
                     "GradientBoostingClassifier", "accuracy_score">>),
     MakeClassification(73, 2, <<"X", "y">>, 1000, 20),
     ColumnNames(76, 2, "feature_names", "Feature_", N("X")),
     ConvertNamed(77, 2, "df", {"pd"}, N("X"), N("feature_names")),
     SetCol(78, 2, "generate", "df", <<"Target">>, <<N("y")>>),
     Display(81, 2, {}, <<N("df")>>),
     Split(89, 3, SplitNames, N("X"), N("y"), 2, 10),
     New(119, 4, "bagging", "BaggingClassifier",
         {"BaggingClassifier", "DecisionTreeClassifier"}),
     Fit(120, 4, "bagging", N("X_train"), N("y_train")),
     Predict(123, 4, <<"bagging_pred">>, "bagging", {}, N("X_test")),
     Metric(124, 4, <<>>, {"accuracy_score"}, N("y_test"), N("bagging_pred")),
     New(149, 5, "boosting", "GradientBoostingClassifier",
         {"GradientBoostingClassifier"}),
     Fit(150, 5, "boosting", N("X_train"), N("y_train")),
     Predict(153, 5, <<"boosting_pred">>, "boosting", {}, N("X_test")),
     Metric(154, 5, <<>>, {"accuracy_score"},
            N("y_test"), N("boosting_pred")),
     Metric(179, 6, <<>>, {"accuracy_score"}, N("y_test"), N("bagging_pred")),
     Metric(180, 6, <<>>, {"accuracy_score"},
            N("y_test"), N("boosting_pred")) >>

Notebooks ==
  {"PidBoosting", "PidForest", "GnbSpam", "GnbCheckpoint", "Stock", "House",
   "Loan", "NaiveBayes", "Pruning", "Fruit", "Wearable", "Bagging"}

(* the polynomial degrees the stock notebook names: 3 as written, 2 or 4   *)
(* as its comment invites                                                  *)
Degrees == {2, 3, 4}

(* the degree the stock notebook is written with *)
WrittenDegree == 3

Notebook(name, d) ==
  CASE name = "PidBoosting" -> PidBoosting
    [] name = "PidForest" -> PidForest
    [] name = "GnbSpam" -> GnbSpam
    [] name = "GnbCheckpoint" -> GnbCheckpoint
    [] name = "Stock" -> Stock(d)
    [] name = "House" -> House
    [] name = "Loan" -> Loan
    [] name = "NaiveBayes" -> NaiveBayes
    [] name = "Pruning" -> Pruning
    [] name = "Fruit" -> Fruit
    [] name = "Wearable" -> Wearable
    [] name = "Bagging" -> Bagging

----------------------------------------------------------------------------
(* What the library calls do to shapes, labels and row sets *)

Vals(e, s) == [i \in DOMAIN s.a |-> Val(e, s.a[i])]

DataOperands(vs) == {i \in DOMAIN vs : vs[i].k = "data"}

(* arrays handed to one call together must have the same number of rows *)
RowsAgree(vs) == \A i, j \in DataOperands(vs) : vs[i].rows = vs[j].rows

InflOf(vs) == UNION {vs[i].infl : i \in DOMAIN vs}

DsOf(vs) == UNION {vs[i].ds : i \in DOMAIN vs}

(* the rows where a column computed from the rows missing of its source is *)
(* missing.  interpolate fills every missing value that follows a valid    *)
(* one; rolling(window).mean() needs window valid values ending at the     *)
(* row; other expressions are taken row by row.                            *)
MissingRows(method, window, rows, missing) ==
  CASE method = "interpolate" ->
         {r \in missing : \A q \in 1..r : q \in missing}
    [] method = "rolling" ->
         {r \in 1..rows : r < window}
           \cup UNION {{r \in q..(q + window - 1) : r <= rows} : q \in missing}
    [] OTHER -> missing

(* the missing places of the columns labels, all computed from source *)
Missing(s, labels, source) ==
  {<<labels[i], r>> :
     i \in DOMAIN labels,
     r \in MissingRows(s.cls, s.n, source.rows, {p[2] : p \in source.nan})}

AddCols(cols, new) == cols \o SelectSeq(new, LAMBDA c : c \notin Range(cols))

(* number of monomials of degree <= d in n variables *)
RECURSIVE NumTerms(_, _)
NumTerms(n, d) ==
  IF n = 0 \/ d = 0 THEN 1 ELSE NumTerms(n - 1, d) + NumTerms(n, d - 1)

(* PolynomialFeatures(degree=d): the columns 1, x, x^2, ..., x^d *)
PolyCols(cols, d) ==
  IF Len(cols) = 1
  THEN <<"1">> \o [j \in 1..d |-> cols[1] \o "^" \o ToString(j)]
  ELSE Unnamed(NumTerms(Len(cols), d))

(* the columns est.fit_transform(x) returns *)
TransformCols(est, x, vocabulary) ==
  CASE est.cls = "PolynomialFeatures" -> PolyCols(x.cols, est.n)
    [] est.cls = "CountVectorizer" -> Unnamed(vocabulary)
    [] OTHER -> x.cols

(* est after est.fit_transform(x): a scaler's mean and scale and a         *)
(* vectorizer's vocabulary are computed from every row of x; polynomial    *)
(* features record only the number of columns                              *)
FittedTransformer(est, x, vocabulary) ==
  [est EXCEPT !.fitted = TRUE, !.cols = x.cols,
              !.tcols = TransformCols(est, x, vocabulary),
              !.rows = x.rows, !.idx = x.idx, !.ds = x.ds,
              !.infl = IF est.cls = "PolynomialFeatures" THEN {}
                       ELSE x.idx \cup x.infl]

(* est.transform(x) of a fitted transformer; a scaler leaves a missing     *)
(* value missing                                                           *)
Transformed(est, x) ==
  [x EXCEPT !.cls = IF est.cls = "CountVectorizer" THEN "sparse" ELSE "ndarray",
            !.cols = est.tcols, !.infl = x.infl \cup est.infl]

(* est after est.fit(x, y) *)
FittedModel(est, x, y) ==
  [est EXCEPT !.fitted = TRUE, !.cols = x.cols, !.tcols = y.cols,
              !.rows = x.rows, !.idx = x.idx, !.ds = x.ds \cup y.ds,
              !.infl = x.idx \cup x.infl]

Ceil(num, den) == (num + den - 1) \div den

(* n_test = floor(test_size * n) *)
NTestFloor(n, frac) == (frac[1] * n) \div frac[2]

(* train_test_split: n_test = ceil(test_size * n), n_train = n - n_test *)
NTest(n, frac) == Ceil(frac[1] * n, frac[2])

NTrain(n, frac) == n - NTest(n, frac)

(* the k-th candidate for the permutation the shuffle draws *)
Perm(k, n, i) == ((i - 1 + k) % n) + 1

(* the test rows are the first n_test of the permutation, the training     *)
(* rows the n_train that follow                                            *)
TestIdx(k, n, frac) == {Perm(k, n, i) : i \in 1..NTest(n, frac)}

TrainIdx(k, n, frac) ==
  {Perm(k, n, i) : i \in (NTest(n, frac) + 1)..(NTest(n, frac) + NTrain(n, frac))}

Part(x, rows, idx, role) ==
  [x EXCEPT !.rows = rows, !.idx = idx, !.role = role,
            !.nan = {p \in @ : p[2] \in idx}]

(* X_train, X_test, y_train, y_test *)
SplitParts(x, y, frac, k) ==
  << Part(x, NTrain(x.rows, frac), TrainIdx(k, x.rows, frac), "feature"),
     Part(x, NTest(x.rows, frac), TestIdx(k, x.rows, frac), "feature"),
     Part(y, NTrain(y.rows, frac), TrainIdx(k, y.rows, frac), "target"),
     Part(y, NTest(y.rows, frac), TestIdx(k, y.rows, frac), "target") >>

----------------------------------------------------------------------------
(* The exception a statement raises, "" when it raises none *)

FirstOperandError(e, s) ==
  LET bad == {i \in DOMAIN s.a : OperandError(e, s.a[i]) # ""}
  IN  IF bad = {} THEN ""
      ELSE OperandError(e, s.a[CHOOSE i \in bad : \A j \in bad : i <= j])

EstimatorError(est, needFitted) ==
  IF est.k # "est" THEN "AttributeError"
  ELSE IF needFitted /\ ~est.fitted THEN "NotFittedError"
  ELSE ""

WidthError(est, x) ==
  IF Len(x.cols) # Len(est.cols) THEN "ValueError" ELSE ""

First(a, b) == IF a # "" THEN a ELSE b

CallError(e, s) ==
  LET vs == Vals(e, s)
      shape == IF RowsAgree(vs) THEN "" ELSE "ValueError"
  IN  CASE s.op \in {"elementwise", "frame", "plot", "metric"} -> shape
        [] s.op = "convert_named" ->
             IF Len(vs[1].cols) = vs[2].rows THEN "" ELSE "ValueError"
        [] s.op = "drop" ->
             IF s.cols[1] \in Range(vs[1].cols) THEN "" ELSE "KeyError"
        [] s.op = "setcol" ->
             IF e[s.tbl].k # "data" THEN "TypeError"
             ELSE IF \A i \in DataOperands(vs) : vs[i].rows = e[s.tbl].rows
                  THEN "" ELSE "ValueError"
        [] s.op \in {"fit_transform", "fit_transform_set"} ->
             EstimatorError(e[s.obj], FALSE)
        [] s.op \in {"transform", "predict"} ->
             First(EstimatorError(e[s.obj], TRUE),
                   IF e[s.obj].k = "est" THEN WidthError(e[s.obj], vs[1]) ELSE "")
        [] s.op = "score" ->
             First(EstimatorError(e[s.obj], TRUE),
                   First(IF e[s.obj].k = "est" THEN WidthError(e[s.obj], vs[1])
                         ELSE "", shape))
        [] s.op = "fit" -> First(EstimatorError(e[s.obj], FALSE), shape)
        [] s.op = "split" ->
             First(shape,
                   IF NTrain(vs[1].rows, s.frac) = 0 \/ NTest(vs[1].rows, s.frac) = 0
                   THEN "ValueError" ELSE "")
        [] s.op \in {"plot_tree", "attr"} -> EstimatorError(e[s.obj], TRUE)
        [] OTHER -> ""

StmtError(e, s) ==
  IF ~(Reads(s) \subseteq DOMAIN e) THEN "NameError"
  ELSE First(FirstOperandError(e, s), CallError(e, s))

----------------------------------------------------------------------------
(* The effect of a statement that raises nothing *)

Fresh(s, cls, rows, cols) == Data(cls, rows, cols, 1..rows, {}, {s.line}, "none")

Origin(s, vs) == IF DsOf(vs) = {} THEN {s.line} ELSE DsOf(vs)

(* the values bound to the names s.w, in their order; k is the permutation *)
(* the shuffle of a split draws.  Arithmetic over arrays is taken row by   *)
(* row: a row of the result stands for the same row of the table.          *)
Results(e, s, k) ==
  LET vs == Vals(e, s)
      one(v) == [i \in DOMAIN s.w |-> v]
      d == vs[CHOOSE i \in DataOperands(vs) : TRUE]
  IN  CASE s.op = "import" -> one(Lib)
        [] s.op = "assign" -> one(Scalar(s.n))
        [] s.op = "literal" -> one(Fresh(s, s.cls, s.n, s.cols))
        [] s.op = "sample" ->
             one(Fresh(s, "ndarray", IF s.a = <<>> THEN s.n ELSE vs[1].n,
                       Unnamed(s.m)))
        [] s.op = "make_classification" ->
             << Fresh(s, "ndarray", s.n, Unnamed(s.m)),
                Fresh(s, "ndarray", s.n, <<"0">>) >>
        [] s.op = "elementwise" ->
             one([Data("ndarray", d.rows, <<"0">>, d.idx, InflOf(vs),
                       Origin(s, vs), "none")
                    EXCEPT !.nan = {<<"0", p[2]>> :
                                      p \in UNION {vs[i].nan : i \in DOMAIN vs}}])
        [] s.op = "frame" ->
             one([Data(s.cls, d.rows, s.cols, d.idx, InflOf(vs),
                       Origin(s, vs), "none")
                    EXCEPT !.nan = UNION {{<<s.cols[i], p[2]>> : p \in vs[i].nan} :
                                            i \in DOMAIN vs}])
        [] s.op = "convert" -> one([vs[1] EXCEPT !.cls = s.cls])
        [] s.op = "column_names" ->
             one([Data("list", Len(vs[1].cols), <<"0">>, {}, {}, {}, "none")
                    EXCEPT !.tcols = [i \in 1..Len(vs[1].cols) |->
                                        s.cls \o ToString(i)]])
        [] s.op = "convert_named" ->
             one([vs[1] EXCEPT !.cls = "DataFrame", !.cols = vs[2].tcols])
        [] s.op = "drop" ->
             one([vs[1] EXCEPT
                    !.cols = SelectSeq(@, LAMBDA c : c # s.cols[1]),
                    !.nan = {p \in @ : p[1] # s.cols[1]}])
        [] s.op = "new" ->
             one(Estimator(s.cls, IF s.a = <<>> THEN 0 ELSE vs[1].n))
        [] s.op = "fit_transform" ->
             one(Transformed(FittedTransformer(e[s.obj], vs[1], s.m), vs[1]))
        [] s.op = "transform" -> one(Transformed(e[s.obj], vs[1]))
        [] s.op = "split" -> SplitParts(vs[1], vs[2], s.frac, k)
        [] s.op = "predict" -> one(Prediction(e[s.obj], vs[1]))
        [] s.op = "figure" -> one([Lib EXCEPT !.k = "figure", !.cls = "Figure"])
        [] s.op = "def" -> one(Func)
        [] OTHER -> one(Scalar(0))

(* a whole array handed to train_test_split is from then on the feature    *)
(* matrix or the target of the notebook                                    *)
Tagged(e, o, role) ==
  IF o.how = "all" THEN [e EXCEPT ![o.v].role = role] ELSE e

(* the namespace after the objects s works on in place have changed *)
Mutated(e, s) ==
  LET vs == Vals(e, s)
  IN  CASE s.op = "fit" ->
             [e EXCEPT ![s.obj] = FittedModel(@, vs[1], vs[2])]
        [] s.op = "fit_transform" ->
             [e EXCEPT ![s.obj] = FittedTransformer(@, vs[1], s.m)]
        [] s.op = "fit_transform_set" ->
             [e EXCEPT ![s.obj] = FittedTransformer(@, vs[1], s.m),
                       ![s.tbl].infl = @ \cup vs[1].idx \cup vs[1].infl]
        [] s.op = "setcol" ->
             [e EXCEPT ![s.tbl].cols = AddCols(@, s.cols),
                       ![s.tbl].nan =
                         {p \in @ : p[1] \notin Range(s.cols)}
                           \cup Missing(s, s.cols, vs[1]),
                       ![s.tbl].infl = @ \cup InflOf(vs),
                       ![s.tbl].ds = @ \cup DsOf(vs)]
        [] s.op = "split" -> Tagged(Tagged(e, s.a[1], "feature"), s.a[2], "target")
        [] OTHER -> e

Effect(e, s, k) ==
  LET m == Mutated(e, s)
      r == Results(e, s, k)
  IN  [x \in (DOMAIN m) \cup Writes(s) |->
         IF x \in Writes(s)
         THEN r[CHOOSE i \in DOMAIN s.w : s.w[i] = x]
         ELSE m[x]]

----------------------------------------------------------------------------
(* The record of the run *)

Consuming == {"preprocess", "split", "fit", "predict", "evaluate", "plot"}

(* what the run notes of an executed statement: the names it bound and     *)
(* read, the roles, row counts and columns of the arrays it was handed,    *)
(* the class it constructed, the text it showed, whether an argument was   *)
(* an array written in place, the generator it drew from, and the          *)
(* originating datasets of what it read                                    *)
LogEntry(e, s) ==
  LET vs == Vals(e, s)
  IN  [line |-> s.line, cell |-> s.cell, op |-> s.op, stage |-> s.stage,
       obj |-> s.obj, w |-> Writes(s), ins |-> Reads(s) \ s.libs,
       roles |-> {vs[i].role : i \in DataOperands(vs)},
       rows |-> {vs[i].rows : i \in DataOperands(vs)},
       cols |-> IF s.a = <<>> THEN <<>> ELSE vs[1].cols,
       tcols |-> IF Len(s.a) < 2 THEN <<>> ELSE vs[2].cols,
       cls |-> s.cls, label |-> s.label,
       lit |-> \E i \in DOMAIN s.a : s.a[i].how = "lit",
       rng |-> s.rng,
       ds |-> DsOf(vs) \cup
              (IF s.obj # "" /\ e[s.obj].k = "est" THEN e[s.obj].ds ELSE {})]

ConsumedDs(l) ==
  UNION {l[i].ds : i \in {j \in DOMAIN l : l[j].stage \in Consuming}}

(* the tables a statement replaces that no consuming step has read *)
Replaced(e, s, l) ==
  {x \in Writes(s) \cap DOMAIN e :
     e[x].k = "data" /\ e[x].ds # {} /\ e[x].ds \cap ConsumedDs(l) = {}}

----------------------------------------------------------------------------
(* The run: a fresh kernel, then one statement after the other *)

(* ---- the prediction helpers of the spam notebook ---- *)

(* longest batch of emails handed to predict_batch_emails *)
MaxBatch == 3

(* feature values of the emails tried: those of the first two emails of    *)
(* sample_batch                                                            *)
WordCounts == {150, 700}

CapFrequencies == {1, 5}

Emails == WordCounts \X CapFrequencies

(* the labels of the Spam column, which gnb.classes_ holds after fit *)
Classes == {0, 1}

(* no helper has been called yet *)
NoCall == [f |-> "", arg |-> << >>, exc |-> "", v |-> << >>]

(* np.array(list) of a list of equal-length rows: a two-dimensional array  *)
(* of those rows, and the one-dimensional array of shape (0,) when the     *)
(* list is empty                                                           *)
NpArray(list) == [ndim |-> IF list = << >> THEN 1 ELSE 2, rows |-> list]

(* gnb.predict(X): sklearn's input validation raises ValueError for an     *)
(* array that is not two-dimensional; otherwise the result holds the class *)
(* of every row, each row classified on its own                            *)
GnbPredict(X) ==
  [exc |-> IF X.ndim # 2 THEN "ValueError" ELSE "",
   v |-> [i \in DOMAIN X.rows |-> predicted[X.rows[i]]]]

predict_single_email_zero(word_count, cap_frequency) ==
  LET input_data == NpArray(<< <<word_count, cap_frequency>> >>)
      prediction == GnbPredict(input_data)
  IN  IF prediction.exc # ""
      THEN [exc |-> prediction.exc, v |-> ""]
      ELSE [exc |-> "",
            v |-> IF prediction.v[1] = 0 THEN "Spam" ELSE "Not Spam"]

(* def predict_single_email: the class of the one-row array, read at       *)
(* index 0, decides the string                                             *)
predict_single_email(word_count, cap_frequency) ==
  LET input_data == NpArray(<< <<word_count, cap_frequency>> >>)
      prediction == GnbPredict(input_data)
  IN  IF prediction.exc # ""
      THEN [exc |-> prediction.exc, v |-> ""]
      ELSE [exc |-> "",
            v |-> IF prediction.v[1] = 1 THEN "Spam" ELSE "Not Spam"]

(* def predict_batch_emails: one predict call on the whole list, then one  *)
(* string per predicted class                                              *)
predict_batch_emails(list) ==
  LET input_data == NpArray(list)
      predictions == GnbPredict(input_data)
  IN  IF predictions.exc # ""
      THEN [exc |-> predictions.exc, v |-> << >>]
      ELSE [exc |-> "",
            v |-> [i \in DOMAIN predictions.v |->
                     IF predictions.v[i] = 1 THEN "Spam" ELSE "Not Spam"]]

NoError == [kind |-> "", line |-> 0, cell |-> 0, at |-> 0]

Program == Notebook(nb, degree)

Running == status = "running" /\ pc <= Len(Program)

Cur == Program[pc]

Init ==
  /\ nb \in Notebooks
  /\ degree \in (IF nb = "Stock" THEN Degrees ELSE {WrittenDegree})
  /\ shuffle \in 0..(NumShuffles - 1)
  /\ pc = 1
  /\ env = << >>
  /\ status = "running"
  /\ err = NoError
  /\ log = << >>
  /\ testRows = {}
  /\ discarded = {}
  /\ email_list = << >>
  /\ predicted = [e \in Emails |-> 0]
  /\ returned = NoCall

(* the statement at pc raises nothing: it takes effect and the run moves   *)
(* to the next statement                                                   *)
Exec ==
  /\ StmtError(env, Cur) = ""
  /\ env' = Effect(env, Cur, shuffle)
  /\ log' = Append(log, LogEntry(env, Cur))
  /\ testRows' = IF Cur.op = "split"
                 THEN TestIdx(shuffle, Val(env, Cur.a[1]).rows, Cur.frac)
                 ELSE testRows
  /\ discarded' = discarded \cup
       {<<x, Cur.line>> : x \in Replaced(env, Cur, log')}
  /\ pc' = pc + 1
  /\ UNCHANGED <<nb, degree, shuffle, status, err>>
  /\ UNCHANGED <<email_list, predicted, returned>>

RunImport ==
  /\ Running
  /\ Cur.op \in {"import"}
  /\ Exec

RunConfig ==
  /\ Running
  /\ Cur.op \in {"assign", "seed", "def", "figure"}
  /\ Exec

RunGenerate ==
  /\ Running
  /\ Cur.op \in {"literal", "sample", "make_classification", "elementwise",
                "frame", "column_names", "convert_named"}
  /\ Exec

RunSelect ==
  /\ Running
  /\ Cur.op \in {"convert", "drop"}
  /\ Exec

RunPreprocess ==
  /\ Running
  /\ Cur.op \in {"setcol", "fit_transform", "fit_transform_set", "transform"}
  /\ Exec

RunSplit ==
  /\ Running
  /\ Cur.op \in {"split"}
  /\ Exec

RunConstruct ==
  /\ Running
  /\ Cur.op \in {"new"}
  /\ Exec

RunFit ==
  /\ Running
  /\ Cur.op \in {"fit"}
  /\ Exec

RunPredict ==
  /\ Running
  /\ Cur.op \in {"predict"}
  /\ Exec

RunEvaluate ==
  /\ Running
  /\ Cur.op \in {"score", "metric", "compute"}
  /\ Exec

RunPlot ==
  /\ Running
  /\ Cur.op \in {"plot", "plot_tree"}
  /\ Exec

RunDisplay ==
  /\ Running
  /\ Cur.op \in {"display", "attr"}
  /\ Exec

(* the statement at pc raises.  No notebook has a try statement, so the    *)
(* exception ends the run: the kernel executes nothing more of the cell    *)
(* and nothing of the cells below                                          *)
Raise ==
  /\ Running
  /\ StmtError(env, Cur) # ""
  /\ err' = IF err = NoError
            THEN [kind |-> StmtError(env, Cur), line |-> Cur.line,
                  cell |-> Cur.cell, at |-> pc]
            ELSE err
  /\ IF Cur.try
     THEN pc' = pc + 1 /\ status' = status
     ELSE pc' = pc /\ status' = "failed"
  /\ UNCHANGED <<nb, degree, shuffle, env, log, testRows, discarded>>
  /\ UNCHANGED <<email_list, predicted, returned>>

(* the last statement has run *)
Finish ==
  /\ status = "running"
  /\ pc > Len(Program)
  /\ status' = "done"
  /\ UNCHANGED <<nb, degree, shuffle, pc, env, err, log, testRows, discarded>>
  /\ UNCHANGED <<email_list, predicted, returned>>

Next ==
  \/ RunImport
  \/ RunConfig
  \/ RunGenerate
  \/ RunSelect
  \/ RunPreprocess
  \/ RunSplit
  \/ RunConstruct
  \/ RunFit
  \/ RunPredict
  \/ RunEvaluate
  \/ RunPlot
  \/ RunDisplay
  \/ Raise
  \/ Finish

Spec == Init /\ [][Next]_vars

(* the kernel runs the next statement whenever there is one *)
LiveSpec == Spec /\ WF_vars(Next)

(* ---- calls of the prediction helpers ---- *)

(* the kernel after the spam notebook's cells ran: gnb is fitted, with any *)
(* decision for the emails tried, and any batch of at most MaxBatch emails *)
(* is at hand                                                              *)
EmailInit ==
  /\ nb = "GnbSpam"
  /\ degree = WrittenDegree
  /\ shuffle = 0
  /\ pc = Len(Program) + 1
  /\ env = << >>
  /\ status = "done"
  /\ err = NoError
  /\ log = << >>
  /\ testRows = {}
  /\ discarded = {}
  /\ email_list \in UNION {[1..n -> Emails] : n \in 0..MaxBatch}
  /\ predicted \in [Emails -> Classes]
  /\ returned = NoCall

(* predict_single_email called with the two features of an email *)
CallSingle ==
  /\ \E sample_email \in Emails :
       LET r == predict_single_email(sample_email[1], sample_email[2])
       IN  returned' = [f |-> "predict_single_email", arg |-> sample_email,
                        exc |-> r.exc, v |-> r.v]
  /\ UNCHANGED <<nb, degree, shuffle, pc, env, status, err, log, testRows,
                 discarded, email_list, predicted>>

(* predict_batch_emails called with the batch at hand *)
CallBatch ==
  /\ LET r == predict_batch_emails(email_list)
     IN  returned' = [f |-> "predict_batch_emails", arg |-> email_list,
                      exc |-> r.exc, v |-> r.v]
  /\ UNCHANGED <<nb, degree, shuffle, pc, env, status, err, log, testRows,
                 discarded, email_list, predicted>>

EmailNext ==
  \/ CallSingle
  \/ CallBatch

EmailSpec == EmailInit /\ [][EmailNext]_vars

----------------------------------------------------------------------------
(* Properties of the runs *)

Ended == status \in {"done", "failed"}

(* C1: every name the statement the run is at reads has been bound by an   *)
(* earlier statement of the notebook, and no run stops on an unbound name. *)
C1_EveryNameBound ==
  /\ Running => Reads(Cur) \subseteq DOMAIN env
  /\ err.kind # "NameError"

StageRank(stage) ==
  CASE stage = "generate" -> 1
    [] stage = "preprocess" -> 2
    [] stage = "split" -> 3
    [] stage = "fit" -> 4
    [] stage = "predict" -> 5
    [] stage = "evaluate" -> 6
    [] stage = "plot" -> 7
    [] OTHER -> 0

(* C2 as stated: the stages of a run occur in the order generate,          *)
(* preprocess, split, fit, predict, evaluate, plot: no executed statement  *)
(* of a stage listed earlier follows one of a stage listed later.          *)
C2_StagesInOrder ==
  \A i, j \in DOMAIN log :
    (i < j /\ StageRank(log[i].stage) > 0 /\ StageRank(log[j].stage) > 0)
      => StageRank(log[i].stage) <= StageRank(log[j].stage)

(* every executed statement of a stage in A precedes every one of a stage in B *)
AllBefore(A, B) ==
  \A i, j \in DOMAIN log :
    (log[i].stage \in A /\ log[j].stage \in B) => i < j

(* a model that predicts or is scored has been fitted by an earlier statement *)
FittedFirst ==
  \A j \in DOMAIN log :
    log[j].op \in {"predict", "score"}
      => \E i \in 1..(j - 1) : log[i].op = "fit" /\ log[i].obj = log[j].obj

(* an executed metric call reads the result of an earlier predict call *)
ScoresPredictions ==
  \A j \in DOMAIN log :
    log[j].op = "metric"
      => \E i \in 1..(j - 1) :
           log[i].op = "predict" /\ log[i].w \cap log[j].ins # {}

(* C2 amended: data generation completes before any preprocessing, split,  *)
(* fit, predict, evaluate or plot step; every preprocessing step and every *)
(* split completes before the first fit, predict or evaluate step; a model *)
(* is fitted before it predicts or is scored; every executed metric call   *)
(* scores the result of an earlier predict call.                           *)
C2_StagesPartlyOrdered ==
  /\ AllBefore({"generate"}, Consuming)
  /\ AllBefore({"preprocess", "split"}, {"fit", "predict", "evaluate"})
  /\ FittedFirst
  /\ ScoresPredictions

(* the loan notebook has run to its end: it split before it fitted its     *)
(* scaler, and scaled before it fitted its model                           *)
C2_Witness ==
  /\ status = "done"
  /\ nb = "Loan"
  /\ \E i, j, k \in DOMAIN log :
       /\ i < j /\ j < k
       /\ log[i].op = "split"
       /\ log[j].op = "fit_transform"
       /\ log[k].op = "fit"
  /\ \E j \in DOMAIN log : log[j].op = "metric"

(* C3: at every split, fit, score, metric and plotting call a run reaches  *)
(* with its arguments evaluated, the arrays passed together have the same  *)
(* number of rows: features and target, predictions and ground truth.      *)
C3_RowsAgree ==
  ( /\ Running
    /\ Cur.op \in {"split", "fit", "score", "metric", "plot"}
    /\ Reads(Cur) \subseteq DOMAIN env
    /\ FirstOperandError(env, Cur) = "" )
  => RowsAgree(Vals(env, Cur))

(* the stock notebook is about to plot the 500 predictions of               *)
(* model.predict(X_poly) against the 500 dates of X                         *)
C3_Witness ==
  /\ Running
  /\ nb = "Stock"
  /\ Cur.line = 269
  /\ Reads(Cur) \subseteq DOMAIN env
  /\ Val(env, Cur.a[2]).role = "pred"
  /\ Val(env, Cur.a[1]).rows = 500
  /\ Val(env, Cur.a[2]).rows = 500

(* the labels statement s selects are columns of the table it selects from *)
SelectsExisting(e, s) ==
  /\ \A i \in DOMAIN s.a :
       s.a[i].how \in {"col", "cols"}
         => Range(s.a[i].sel) \subseteq Range(e[s.a[i].v].cols)
  /\ s.op = "drop" => s.cols[1] \in Range(e[s.a[1].v].cols)

(* C4: every column name a statement selects from a table is a column of   *)
(* that table at the moment the run reaches the statement.                 *)
C4_ColumnsExist ==
  (Running /\ Reads(Cur) \subseteq DOMAIN env) => SelectsExisting(env, Cur)

(* the spam notebook is about to select WordCount and CapFrequency from df *)
C4_Witness ==
  /\ Running
  /\ nb = "GnbSpam"
  /\ Cur.line = 454
  /\ "df" \in DOMAIN env
  /\ Cur.a[1].sel = <<"WordCount", "CapFrequency">>
  /\ SelectsExisting(env, Cur)

Tables == {"X", "y", "df", "data"}

(* C5: no dataset bound to X, y, df or data is replaced before a           *)
(* preprocessing, split, fit, predict, evaluate or plot step has read it;  *)
(* the house model is fitted on the five-row table of line 428; the        *)
(* ten-row wearable table of line 81 is what the scaler and the split read *)
C5_ConsumedBeforeReplaced ==
  /\ \A d \in discarded : d[1] \notin Tables
  /\ \A i \in DOMAIN log :
       (nb = "House" /\ log[i].op = "fit") => 428 \in log[i].ds
  /\ \A i \in DOMAIN log :
       (nb = "Wearable" /\ log[i].op \in {"fit_transform", "split"})
         => 81 \in log[i].ds

BoundBy(p, n) == UNION {Writes(p[i]) : i \in 1..n}

(* C6: once a statement has raised, the run has stopped at that statement, *)
(* the names bound are exactly those the statements before it bound, and   *)
(* no step follows: raising changes neither the namespace nor the record   *)
(* of the run.                                                             *)
C6_NoRecovery ==
  /\ [](err # NoError =>
          /\ status = "failed"
          /\ pc = err.at
          /\ Len(log) = pc - 1
          /\ DOMAIN env = BoundBy(Program, pc - 1))
  /\ [][err = NoError /\ (err' # NoError => env' = env /\ log' = log)]_vars

(* the Naive Bayes notebook has stopped at accuracy_score(y_test, y_pred): *)
(* model is bound, accuracy, cm and class_report are not                   *)
C6_Witness ==
  /\ status = "failed"
  /\ nb = "NaiveBayes"
  /\ err.line = 110
  /\ "model" \in DOMAIN env
  /\ {"accuracy", "cm", "class_report"} \cap DOMAIN env = {}

Built == \E i \in DOMAIN log : log[i].stage = "generate"

ScoredAt(i) == log[i].op \in {"metric", "score"}

(* the roles of the arrays the plot statements of cell c have drawn *)
CellRoles(c) ==
  UNION {log[j].roles :
           j \in {k \in DOMAIN log : log[k].op = "plot" /\ log[k].cell = c}}

(* statement i belongs to a plot of predictions and ground truth *)
ComparesAt(i) ==
  log[i].op = "plot" /\ {"pred", "target"} \subseteq CellRoles(log[i].cell)

FittedThenScored ==
  \E f, s \in DOMAIN log : f < s /\ log[f].op = "fit" /\ ScoredAt(s)

ComparedAfterScoring ==
  \E s, p \in DOMAIN log : s < p /\ ScoredAt(s) /\ ComparesAt(p)

(* C7 as stated: a run that has completed has built its data, fitted a     *)
(* model, scored it, and then drawn a plot of predictions against ground   *)
(* truth.                                                                  *)
C7_FullPipeline ==
  status = "done" => (Built /\ FittedThenScored /\ ComparedAfterScoring)

Comparing == {"PidBoosting", "PidForest", "House"}

(* C7 amended: every run eventually ends, with its dataset built; a run    *)
(* that completes has fitted a model and then scored it; a completed run   *)
(* has drawn predictions against ground truth after scoring exactly in the *)
(* PID boosting, PID random forest and house notebooks.                    *)
C7_EndsFittedScored ==
  /\ <>(Ended /\ Built)
  /\ [](status = "done" => FittedThenScored)
  /\ [](status = "done" => (ComparedAfterScoring <=> nb \in Comparing))

(* the bagging notebook has completed: fitted, scored, nothing plotted *)
C7_Witness ==
  /\ status = "done"
  /\ nb = "Bagging"
  /\ Built
  /\ FittedThenScored
  /\ \A i \in DOMAIN log : log[i].op # "plot"

NotFeatures == {"Spam", "label", "Loan Default", "Label", "Target", "EmailID"}

(* C8: in the PID notebooks the matrix handed to the scaler, to fit and to *)
(* predict has exactly the columns Error, Derivative, Integral, Setpoint;  *)
(* in the other notebooks no target column and no row identifier is a      *)
(* column of the matrix handed to fit, predict or score.  (An array keeps  *)
(* the labels of the table columns it holds.)                              *)
C8_TargetsNeverFeatures ==
  \A i \in DOMAIN log :
    IF nb \in {"PidBoosting", "PidForest"}
    THEN log[i].op \in {"fit_transform", "fit", "predict"}
           => log[i].cols = PidFeatures
    ELSE log[i].op \in {"fit", "predict", "score"}
           => Range(log[i].cols) \cap NotFeatures = {}

(* the boosting notebook has fitted xg_model_kd on the four feature        *)
(* columns, and the wearable notebook its model on the table without label *)
C8_Witness ==
  \/ /\ nb = "PidBoosting"
     /\ \E i \in DOMAIN log :
          /\ log[i].op = "fit"
          /\ log[i].obj = "xg_model_kd"
          /\ log[i].cols = PidFeatures
  \/ /\ nb = "Wearable"
     /\ \E i \in DOMAIN log :
          log[i].op = "fit" /\ log[i].cols = WearableFeatures

(* C9: no fitted scaler, vectorizer or model has been computed from the    *)
(* feature values of a row that the split placed in the test set.          *)
C9_TestRowsUnseen ==
  \A x \in DOMAIN env :
    (env[x].k = "est" /\ env[x].fitted) => env[x].infl \cap testRows = {}

(* the training and test row counts the notebooks state or imply *)
StatedSplit(name) ==
  CASE name \in {"PidBoosting", "PidForest", "House", "Loan", "Bagging"} ->
         <<800, 200>>
    [] name = "Fruit" -> <<70, 30>>
    [] name = "Wearable" -> <<900, 100>>
    [] name = "NaiveBayes" -> <<3, 1>>
    [] name = "Stock" -> <<400, 100>>
    [] name = "Pruning" -> <<120, 30>>
    [] name \in {"GnbSpam", "GnbCheckpoint"} -> <<16, 4>>

SplitStmt == Program[CHOOSE i \in DOMAIN Program : Program[i].op = "split"]

(* C10: no split raises, and after the split the training and test rows    *)
(* are disjoint, together are the n rows of the table, the test rows       *)
(* number ceil(test_size * n), features and target are split alike, and    *)
(* the counts are the stated ones.                                         *)
C10_SplitPartitions ==
  /\ status = "failed" => Program[err.at].op # "split"
  /\ "X_test" \in DOMAIN env =>
       LET tr == env["X_train"]
           te == env["X_test"]
           n == StatedSplit(nb)[1] + StatedSplit(nb)[2]
           num == SplitStmt.frac[1]
           den == SplitStmt.frac[2]
       IN  /\ tr.idx \cap te.idx = {}
           /\ tr.idx \cup te.idx = 1..n
           /\ \E i \in DOMAIN log : log[i].op = "split" /\ log[i].rows = {n}
           /\ Cardinality(te.idx) = te.rows
           /\ Cardinality(tr.idx) = tr.rows
           /\ te.rows * den >= num * n
           /\ (te.rows - 1) * den < num * n
           /\ <<tr.rows, te.rows>> = StatedSplit(nb)
           /\ env["y_train"].idx = tr.idx
           /\ env["y_test"].idx = te.idx

(* the four emails have been split into three for training and one for test *)
C10_Witness ==
  /\ nb = "NaiveBayes"
  /\ "X_test" \in DOMAIN env
  /\ env["X_train"].rows = 3
  /\ env["X_test"].rows = 1
  /\ Cardinality(env["X_train"].idx \cup env["X_test"].idx) = 4

Algorithms == {"AdaBoost", "Gradient Boosting", "XGBoost"}

(* the algorithm the markdown and the printed text call an estimator class *)
Algorithm(cls) ==
  CASE cls = "AdaBoostRegressor" -> "AdaBoost"
    [] cls = "GradientBoostingRegressor" -> "Gradient Boosting"
    [] cls = "XGBRegressor" -> "XGBoost"
    [] OTHER -> cls

Entries(op) == {i \in DOMAIN log : log[i].op = op}

(* the algorithm of the class model was constructed from and the target    *)
(* column it was fitted on                                                 *)
PairOfModel(model) ==
  LET n == CHOOSE i \in Entries("new") : model \in log[i].w
      f == CHOOSE i \in Entries("fit") : log[i].obj = model
  IN  <<Algorithm(log[n].cls), log[f].tcols[1]>>

IsPredictions(x) == \E i \in Entries("predict") : x \in log[i].w

(* the pair of the model whose predictions statement i reads *)
PairRead(i) ==
  LET x == CHOOSE x \in log[i].ins : IsPredictions(x)
      p == CHOOSE p \in Entries("predict") : x \in log[p].w
  IN  PairOfModel(log[p].obj)

(* the pair of the model whose score the print statement i shows *)
PairShown(i) ==
  PairRead(CHOOSE m \in Entries("metric") : log[m].w \cap log[i].ins # {})

Pairs(S, pair(_)) == {pair(i) : i \in S}

(* C11: in the PID boosting notebook every r2_score call scores the        *)
(* predictions of a model against the target column the model was fitted   *)
(* on, every print names the algorithm and target of the score it shows,   *)
(* every plot is of the target column its title names and of the           *)
(* predictions of the model its title names; a completed run has fitted,   *)
(* scored, printed and plotted exactly nine times, once for each pair of   *)
(* algorithm and target.                                                   *)
C11_NinePairsConsistent ==
  nb = "PidBoosting" =>
    /\ \A i \in Entries("metric") :
         /\ (\E x \in log[i].ins : IsPredictions(x))
         /\ log[i].cols = log[i].tcols
         /\ log[i].cols = <<PairRead(i)[2]>>
    /\ \A i \in Entries("display") :
         log[i].label # <<>> => log[i].label = PairShown(i)
    /\ \A i \in Entries("plot") :
         /\ (\E x \in log[i].ins : IsPredictions(x))
         /\ log[i].label = PairRead(i)
         /\ log[i].cols = <<log[i].label[2]>>
         /\ log[i].tcols = log[i].cols
    /\ status = "done" =>
         LET fits == Entries("fit")
             prints == {i \in Entries("display") : log[i].label # <<>>}
             model(i) == PairOfModel(log[i].obj)
             label(i) == log[i].label
         IN  /\ Cardinality(fits) = 9
             /\ Pairs(fits, model) = Algorithms \X Range(PidTargets)
             /\ Cardinality(Entries("metric")) = 9
             /\ Pairs(Entries("metric"), PairRead) = Algorithms \X Range(PidTargets)
             /\ Cardinality(prints) = 9
             /\ Pairs(prints, label) = Algorithms \X Range(PidTargets)
             /\ Cardinality(Entries("plot")) = 9
             /\ Pairs(Entries("plot"), label) = Algorithms \X Range(PidTargets)

(* the boosting notebook has completed; its last plot is titled XGBoost,   *)
(* Kd and shows the predictions of the XGBoost model fitted on Kd          *)
C11_Witness ==
  /\ status = "done"
  /\ nb = "PidBoosting"
  /\ \E i \in Entries("plot") :
       /\ log[i].line = 279
       /\ log[i].label = <<"XGBoost", "Kd">>
       /\ PairRead(i) = <<"XGBoost", "Kd">>
       /\ log[i].tcols = <<"Kd">>

(* the columns statement s reads by position exist *)
IndexesExisting(e, s) ==
  \A i \in DOMAIN s.a :
    s.a[i].how = "ix" => s.a[i].ix < Len(e[s.a[i].v].cols)

(* C12: in the stock notebook, for poly_degree 2, 3 and 4, the run does    *)
(* not stop, X_poly has poly_degree + 1 columns, and every column index a  *)
(* statement reads exists in the array it reads it from.                   *)
C12_EveryDegreeCompletes ==
  nb = "Stock" =>
    /\ status # "failed"
    /\ "X_poly" \in DOMAIN env => Len(env["X_poly"].cols) = degree + 1
    /\ (Running /\ Reads(Cur) \subseteq DOMAIN env) => IndexesExisting(env, Cur)

(* the input of the predict statement i holds a row that is no row of the  *)
(* table df: an array written in place, or rows generated elsewhere        *)
PredictsOutsideTable(i) ==
  /\ log[i].op = "predict"
  /\ log[i].lit \/ ~(log[i].ds \subseteq env["df"].ds)

(* C13: a completed run of the stock notebook has called predict on an     *)
(* input with a date that is none of the simulated days, which are the     *)
(* rows of df.                                                             *)
C13_PredictsFuture ==
  (nb = "Stock" /\ status = "done")
    => \E i \in DOMAIN log : PredictsOutsideTable(i)

(* C14: in the stock notebook, once the preprocessing cell has run (its    *)
(* last statement is the scaling of line 117), no row of df holds a        *)
(* missing value in any column.                                            *)
C14_NoMissingValues ==
  (nb = "Stock" /\ \E i \in DOMAIN log : log[i].line = 117)
    => env["df"].nan = {}

(* statement i draws from numpy's global generator and no np.random.seed   *)
(* call precedes it                                                        *)
DrawsUnseeded(i) ==
  /\ log[i].rng = "global"
  /\ \A j \in 1..(i - 1) : log[j].op # "seed"

(* C15: every draw of a run is reproducible: it comes from a call given    *)
(* random_state, or from numpy's global generator after np.random.seed.    *)
C15_SeededBeforeDraw == \A i \in DOMAIN log : ~DrawsUnseeded(i)

(* C16: predict_single_email returns one of the strings "Spam" and "Not    *)
(* Spam", and "Spam" exactly when the fitted model's class for the row     *)
(* [word_count, cap_frequency] is 1.                                       *)
C16_SpamIffClassOne ==
  returned.f = "predict_single_email" =>
    /\ returned.exc = ""
    /\ returned.v \in {"Spam", "Not Spam"}
    /\ returned.v = "Spam" <=> predicted[returned.arg] = 1

C16_Witness ==
  /\ returned.f = "predict_single_email"
  /\ returned.v = "Not Spam"
  /\ \E e \in Emails : predicted[e] = 1

(* the entries of a returned batch are those predict_single_email returns  *)
(* for the emails, one per email and in their order                        *)
AgreesWithSingle(list, v) ==
  /\ Len(v) = Len(list)
  /\ \A i \in DOMAIN list :
       v[i] = predict_single_email(list[i][1], list[i][2]).v

(* C17: predict_batch_emails returns a list with one entry per email of    *)
(* its input, in order, the i-th being what predict_single_email returns   *)
(* for the i-th email.                                                     *)
C17_BatchIsSingles ==
  returned.f = "predict_batch_emails" =>
    /\ returned.exc = ""
    /\ AgreesWithSingle(returned.arg, returned.v)

====
